---- MODULE Spec2Model ----
(***************************************************************************)
(* Model of the batch pipeline of scripts/convert_orbit_engine_to_         *)
(* timeseries.py (build_time_index, generate_full_orbit_timeseries,        *)
(* verify_coverage, main) and of scripts/integrate_stage5_signal_data.py   *)
(* (match_timestamps, integrate_signal_quality).                           *)
(*                                                                         *)
(* Numbers.  Every float of the program is a decimal with at most three    *)
(* fractional digits in the inputs drawn here; it is held as an integer    *)
(* count of thousandths (45.678 is 45678, -90.0 is -90000).  A quotient    *)
(* (an average, a rate) is held exactly, as [num, den].                    *)
(*                                                                         *)
(* Timestamps.  A timestamp is a string of the program.  The string        *)
(* "2025-11-03T06:00:SS+00:00" is [fmt |-> "utc", tick |-> k], the string  *)
(* "2025-11-03T06:00:SS" (no offset) is [fmt |-> "naive", tick |-> k],     *)
(* with SS = 15 * k seconds, and the string "invalid" is                   *)
(* [fmt |-> "bad", tick |-> 0].  Two timestamps are the same string iff    *)
(* they are the same record.                                               *)
(*                                                                         *)
(* Python's None is the empty tuple << >>; a dict is a function (a record  *)
(* when its keys are field names), so that a key a dict lacks is a key     *)
(* outside its DOMAIN; a dict whose order of insertion is read is a        *)
(* sequence of <<key, value>> pairs.                                       *)
(***************************************************************************)
EXTENDS Integers, Sequences, FiniteSets, TLC

VARIABLES
    pc,                 \* position of main(): which step has run last
    constellation,      \* main: the category being processed
    satellite_pool,     \* load_orbit_engine_data: the sparse per-entity samples
    time_points,        \* build_time_index: the canonical timeline
    visibility_index,   \* build_time_index: timestamp -> sat_id -> sample
    satellites_data,    \* generate_full_orbit_timeseries: the dense series
    time_step_seconds,  \* generate_full_orbit_timeseries: the step duration
    coverage_stats,     \* verify_coverage: the report it returns (or None)
    verdict,            \* verify_coverage: the verdict it prints
    output_data,        \* main: the document written for the category
    timeseries_data,    \* integrate: the primary document (mutated in place)
    signal_data,        \* integrate: the secondary source, sat_id -> sat_data
    matched_count,      \* integrate_signal_quality: matched points
    total_points,       \* integrate_signal_quality: points gone through
    match_rate          \* integrate_signal_quality: the rate it prints

vars == <<pc, constellation, satellite_pool, time_points, visibility_index,
          satellites_data, time_step_seconds, coverage_stats, verdict,
          output_data, timeseries_data, signal_data, matched_count,
          total_points, match_rate>>

convertVars == <<constellation, satellite_pool, time_points, visibility_index,
                 satellites_data, time_step_seconds, coverage_stats, verdict,
                 output_data>>

alignVars == <<timeseries_data, signal_data, matched_count, total_points,
               match_rate>>

None == << >>

(***************************************************************************)
(* Bounds of the inputs drawn by the initial states.                       *)
(***************************************************************************)
\* entities of the pool of a conversion run, and of an alignment run
NumSats == 2
\* sparse samples of the whole pool of a conversion run
MaxSamples == 3
\* timestamps of a conversion run are ticks 0..MaxTick
MaxTick == 3
\* points of the secondary source of an alignment run, over all entities
MaxSecondaryPoints == 2
\* entities of a conversion run over a large pool
NumCovSats == 16
\* timeline length of a conversion run over a large pool
MaxCovSteps == 20
\* timestamps of such a run whose count differs from that of the first ones
MaxOutliers == 2

(***************************************************************************)
(* Timestamps as strings: order, parsing.                                  *)
(***************************************************************************)
Utc(k) == [fmt |-> "utc", tick |-> k]
Naive(k) == [fmt |-> "naive", tick |-> k]
BadTs == [fmt |-> "bad", tick |-> 0]

\* Python's < on the strings: "invalid" is after every string that starts
\* with a digit; two dates compare by their fixed-width fields; a string
\* that is a proper prefix of another ("...:SS" of "...:SS+00:00") is before it.
StrLess(a, b) ==
    IF a.fmt = "bad" THEN FALSE
    ELSE IF b.fmt = "bad" THEN TRUE
    ELSE \/ a.tick < b.tick
         \/ a.tick = b.tick /\ a.fmt = "naive" /\ b.fmt = "utc"

RECURSIVE SortedMut(_)
\* mutant of Sorted: the timestamps in descending order
SortedMut(S) ==
    IF S = {} THEN << >>
    ELSE LET m == CHOOSE x \in S : \A y \in S : ~StrLess(x, y)
         IN  <<m>> \o SortedMut(S \ {m})

RECURSIVE Sorted(_)
\* sorted(all_timestamps): the strings of the set in ascending order
Sorted(S) ==
    IF S = {} THEN << >>
    ELSE LET m == CHOOSE x \in S : \A y \in S : ~StrLess(y, x)
         IN  <<m>> \o Sorted(S \ {m})

\* seconds since 06:00:00 of a timestamp that parses
SecondsOf(ts) == 15 * ts.tick

(***************************************************************************)
(* round(x, 2) of Python: to the nearest hundredth, a tie to the even one. *)
(***************************************************************************)
\* the value p/q (q > 0, in thousandths) rounded to a multiple of 10
RoundRatio2(p, q) ==
    LET h == p \div (10 * q)
        r == p - h * (10 * q)
    IN  IF 2 * r < 10 * q THEN 10 * h
        ELSE IF 2 * r > 10 * q THEN 10 * (h + 1)
        ELSE IF h % 2 = 0 THEN 10 * h ELSE 10 * (h + 1)

Round2(v) == RoundRatio2(v, 1)

Max(a, b) == IF a >= b THEN a ELSE b

RECURSIVE SumSeq(_)
SumSeq(s) == IF s = << >> THEN 0 ELSE Head(s) + SumSeq(Tail(s))

RECURSIVE MinSeq(_)
MinSeq(s) ==
    IF Len(s) = 1 THEN s[1]
    ELSE LET m == MinSeq(Tail(s)) IN IF s[1] <= m THEN s[1] ELSE m

RECURSIVE MaxSeq(_)
MaxSeq(s) ==
    IF Len(s) = 1 THEN s[1]
    ELSE LET m == MaxSeq(Tail(s)) IN IF s[1] >= m THEN s[1] ELSE m

(***************************************************************************)
(* build_time_index                                                        *)
(***************************************************************************)
\* lines 70-73: the set of all timestamps of all satellites
AllTimestamps(pool) ==
    UNION { { pool[i].time_series[j].timestamp :
                j \in 1..Len(pool[i].time_series) } : i \in 1..Len(pool) }

\* lines 86-91: the entry stored for one point
IndexEntry(point) ==
    [elevation_deg |-> point.visibility_metrics.elevation_deg,
     azimuth_deg   |-> point.visibility_metrics.azimuth_deg,
     distance_km   |-> point.visibility_metrics.distance_km,
     is_visible    |-> point.visibility_metrics.is_connectable = "True"]

\* the last point of a series at timestamp ts (a later assignment of
\* line 86 to the same keys replaces an earlier one)
LastPointAt(series, ts) ==
    LET js == { j \in 1..Len(series) : series[j].timestamp = ts }
    IN  series[CHOOSE j \in js : \A i \in js : i <= j]

\* the last entry of the pool with satellite_id sat_id and a point at ts
LastHolder(pool, sat_id, ts) ==
    LET ks == { k \in 1..Len(pool) :
                    /\ pool[k].satellite_id = sat_id
                    /\ \E j \in 1..Len(pool[k].time_series) :
                            pool[k].time_series[j].timestamp = ts }
    IN  pool[CHOOSE k \in ks : \A i \in ks : i <= k]

\* the satellites with a point at ts
SatsAt(pool, ts) ==
    { pool[k].satellite_id :
        k \in { i \in 1..Len(pool) :
                    \E j \in 1..Len(pool[i].time_series) :
                        pool[i].time_series[j].timestamp = ts } }

\* lines 80-91: visibility_index after the two loops; a key exists once a
\* point was assigned under it
VisibilityIndex(pool) ==
    [ts \in AllTimestamps(pool) |->
        [sat_id \in SatsAt(pool, ts) |->
            IndexEntry(LastPointAt(LastHolder(pool, sat_id, ts).time_series,
                                   ts))]]

\* lines 59-93: <<time_points, visibility_index>>
build_time_index(pool) ==
    <<Sorted(AllTimestamps(pool)), VisibilityIndex(pool)>>

(***************************************************************************)
(* generate_full_orbit_timeseries                                          *)
(***************************************************************************)
\* datetime.fromisoformat(ts.replace('+00:00', '')) raises on "invalid"
IsoParses(ts) == ts.fmt # "bad"

\* lines 107-108: whether datetime.fromisoformat raises a ValueError
TimeStepRaises(tps) ==
    Len(tps) >= 2 /\ ~(IsoParses(tps[1]) /\ IsoParses(tps[2]))

\* line 111: the step of a timeline of fewer than two timestamps
DefaultTimeStep == 30

\* lines 106-111: the step duration, when nothing is raised
TimeStep(tps) ==
    IF Len(tps) >= 2
    THEN SecondsOf(tps[2]) - SecondsOf(tps[1])
    ELSE DefaultTimeStep

\* lines 146-153: the record filled in where the satellite has no sample
SentinelRecord(ts, offset) ==
    [time |-> ts, time_offset_seconds |-> offset,
     elevation_deg |-> -90000, azimuth_deg |-> 0, range_km |-> 9999000,
     is_visible |-> FALSE]

\* mutant of DenseRecord: the visible flag copied from the index entry
DenseRecordMut(index, sat_id, ts, offset) ==
    IF sat_id \in DOMAIN index[ts]
    THEN LET vis_data == index[ts][sat_id]
         IN  IF vis_data.is_visible
             THEN [time |-> ts, time_offset_seconds |-> offset,
                   elevation_deg |-> Round2(vis_data.elevation_deg),
                   azimuth_deg |-> Round2(vis_data.azimuth_deg),
                   range_km |-> Round2(vis_data.distance_km),
                   is_visible |-> TRUE]
             ELSE SentinelRecord(ts, offset)
    ELSE SentinelRecord(ts, offset)

\* lines 129-153: the record of one satellite at one canonical timestamp
DenseRecord(index, sat_id, ts, offset) ==
    IF sat_id \in DOMAIN index[ts]
    THEN LET vis_data == index[ts][sat_id]
         IN  [time |-> ts, time_offset_seconds |-> offset,
              elevation_deg |-> Round2(vis_data.elevation_deg),
              azimuth_deg |-> Round2(vis_data.azimuth_deg),
              range_km |-> Round2(vis_data.distance_km),
              is_visible |-> TRUE]
    ELSE SentinelRecord(ts, offset)

\* mutant of PositionTimeseries: only the observed timestamps get a record
PositionTimeseriesMut(index, sat_id, tps, step) ==
    LET seen == SelectSeq(tps, LAMBDA t : sat_id \in DOMAIN index[t])
    IN  [i \in 1..Len(seen) |->
            DenseRecord(index, sat_id, seen[i], (i - 1) * step)]

\* mutant of PositionTimeseries: the offset is the time elapsed since the
\* first canonical timestamp
PositionTimeseriesElapsedMut(index, sat_id, tps, step) ==
    [i \in 1..Len(tps) |->
        DenseRecord(index, sat_id, tps[i],
                    SecondsOf(tps[i]) - SecondsOf(tps[1]))]

\* lines 120-153: position_timeseries of one satellite
PositionTimeseries(index, sat_id, tps, step) ==
    [i \in 1..Len(tps) |-> DenseRecord(index, sat_id, tps[i], (i - 1) * step)]

\* lines 121, 133: visible_count after the loop
VisibleCount(index, sat_id, tps) ==
    Cardinality({ i \in 1..Len(tps) : sat_id \in DOMAIN index[tps[i]] })

RECURSIVE MaxElevation(_, _, _, _)
\* lines 122, 134: max_elevation after the first n timestamps, from 0.0
MaxElevation(index, sat_id, tps, n) ==
    IF n = 0 THEN 0
    ELSE LET before == MaxElevation(index, sat_id, tps, n - 1)
         IN  IF sat_id \in DOMAIN index[tps[n]]
             THEN Max(before, index[tps[n]][sat_id].elevation_deg)
             ELSE before

\* line 156: visible_percentage, then line 169: rounded
VisiblePercentage(visible_count, n) ==
    IF n > 0 THEN RoundRatio2(visible_count * 100000, n) ELSE 0

\* lines 117-173: the entry appended for one satellite of the pool
SatelliteEntry(satellite, tps, index, step) ==
    LET sat_id == satellite.satellite_id
        visible_count == VisibleCount(index, sat_id, tps)
    IN  [id |-> sat_id,
         name |-> satellite.name,
         constellation |-> "starlink",
         config |-> [min_elevation_deg |-> 5000,
                     time_step_seconds |-> step,
                     time_points |-> Len(tps)],
         statistics |->
            [visible_points |-> visible_count,
             visible_percentage |-> VisiblePercentage(visible_count, Len(tps)),
             max_elevation |->
                Round2(MaxElevation(index, sat_id, tps, Len(tps)))],
         position_timeseries |-> PositionTimeseries(index, sat_id, tps, step)]

\* mutant of SatellitesData: a satellite without any sample is left out
SatellitesDataMut(pool, tps, index, step) ==
    LET kept == SelectSeq(pool, LAMBDA s : s.time_series # << >>)
    IN  [k \in 1..Len(kept) |-> SatelliteEntry(kept[k], tps, index, step)]

\* lines 103, 117-173: satellites_data, one entry per satellite of the pool
SatellitesData(pool, tps, index, step) ==
    [k \in 1..Len(pool) |-> SatelliteEntry(pool[k], tps, index, step)]

(***************************************************************************)
(* verify_coverage                                                         *)
(***************************************************************************)
\* line 203: the band the counts are measured against
TargetLow == 10
TargetHigh == 15
\* line 210: the pass threshold 0.95, in percent
PassRatePercent == 95
\* lines 10-11 (module docstring): the targets stated per constellation
StarlinkLow == 10
StarlinkHigh == 15
OnewebLow == 3
OnewebHigh == 6

\* mutant of VisibleCounts: the entities that are not visible are counted
VisibleCountsMut(sats, total) ==
    [i \in 1..total |->
        Cardinality({ k \in 1..Len(sats) :
                        ~sats[k].position_timeseries[i].is_visible })]

\* lines 191-196: the number of visible satellites at each time index
VisibleCounts(sats, total) ==
    [i \in 1..total |->
        Cardinality({ k \in 1..Len(sats) :
                        sats[k].position_timeseries[i].is_visible })]

\* mutant of TargetMet: the upper bound of the band is exclusive
TargetMetMut(visible_counts) ==
    Cardinality({ i \in 1..Len(visible_counts) :
                    TargetLow <= visible_counts[i]
                        /\ visible_counts[i] < TargetHigh })

\* line 203: the number of time points whose count is within the band
TargetMet(visible_counts) ==
    Cardinality({ i \in 1..Len(visible_counts) :
                    TargetLow <= visible_counts[i]
                        /\ visible_counts[i] <= TargetHigh })

\* line 210: 10 <= avg_visible <= 15 and target_met_rate >= 0.95
MeetsTarget(sum, n, target_met, total) ==
    /\ TargetLow * n <= sum
    /\ sum <= TargetHigh * n
    /\ 100 * target_met >= PassRatePercent * total

\* lines 182-220.  outcome "returned" with the dict of lines 215-220, or with
\* None (line 188); outcome "raised" is the ZeroDivisionError of line 198
verify_coverage(sats) ==
    IF sats = << >>
    THEN [outcome |-> "returned", value |-> None, verdict |-> "none"]
    ELSE LET total == sats[1].config.time_points
             visible_counts == VisibleCounts(sats, total)
         IN  IF Len(visible_counts) = 0
             THEN [outcome |-> "raised", value |-> None, verdict |-> "none"]
             ELSE LET sum == SumSeq(visible_counts)
                      target_met == TargetMet(visible_counts)
                  IN  [outcome |-> "returned",
                       value |->
                          [avg_visible |->
                                [num |-> sum, den |-> Len(visible_counts)],
                           min_visible |-> MinSeq(visible_counts),
                           max_visible |-> MaxSeq(visible_counts),
                           target_met_rate |->
                                [num |-> target_met, den |-> total]],
                       verdict |->
                          IF MeetsTarget(sum, Len(visible_counts),
                                         target_met, total)
                          THEN "met" ELSE "not_met"]

(***************************************************************************)
(* main of convert_orbit_engine_to_timeseries.py, for one constellation    *)
(***************************************************************************)
\* lines 275-296: the document of the constellation
OutputData(const_name, sats, step, total, stats) ==
    [metadata |->
        [generator |-> "convert_orbit_engine_to_timeseries.py",
         source |-> "orbit-engine Stage 4 pool_optimization",
         constellation |-> const_name,
         orbit_period_minutes |-> [num |-> total * step, den |-> 60]],
     statistics |->
        [total_satellites |-> Len(sats),
         constellation |-> const_name,
         time_points |-> total,
         time_step_seconds |-> step,
         orbit_period_minutes |-> [num |-> total * step, den |-> 60],
         avg_visible_satellites |-> stats.avg_visible,
         visible_range |-> <<stats.min_visible, stats.max_visible>>,
         target_met_rate |-> stats.target_met_rate],
     satellites |-> sats]

\* line 264
BuildTimeIndex ==
    /\ pc = "loaded"
    /\ LET r == build_time_index(satellite_pool)
       IN  /\ time_points' = r[1]
           /\ visibility_index' = r[2]
    /\ pc' = "indexed"
    /\ UNCHANGED <<constellation, satellite_pool, satellites_data,
                   time_step_seconds, coverage_stats, verdict, output_data>>
    /\ UNCHANGED alignVars

\* lines 267-269; the ValueError of line 107 or 108 ends the run
GenerateFullOrbitTimeseries ==
    /\ pc = "indexed"
    /\ LET step == TimeStep(time_points)
       IN  IF TimeStepRaises(time_points)
           THEN /\ pc' = "failed"
                /\ UNCHANGED <<satellites_data, time_step_seconds>>
           ELSE /\ pc' = "generated"
                /\ time_step_seconds' = step
                /\ satellites_data' =
                        SatellitesData(satellite_pool, time_points,
                                       visibility_index, step)
    /\ UNCHANGED <<constellation, satellite_pool, time_points,
                   visibility_index, coverage_stats, verdict, output_data>>
    /\ UNCHANGED alignVars

\* line 272; the ZeroDivisionError of line 198 ends the run
VerifyCoverage ==
    /\ pc = "generated"
    /\ LET r == verify_coverage(satellites_data)
       IN  IF r.outcome = "raised"
           THEN /\ pc' = "failed"
                /\ UNCHANGED <<coverage_stats, verdict>>
           ELSE /\ pc' = "verified"
                /\ coverage_stats' = r.value
                /\ verdict' = r.verdict
    /\ UNCHANGED <<constellation, satellite_pool, time_points,
                   visibility_index, satellites_data, time_step_seconds,
                   output_data>>
    /\ UNCHANGED alignVars

\* lines 275-304; coverage_stats['avg_visible'] of line 291 raises a
\* TypeError when verify_coverage returned None, and nothing is written
WriteOutput ==
    /\ pc = "verified"
    /\ IF coverage_stats = None
       THEN /\ pc' = "failed"
            /\ UNCHANGED output_data
       ELSE /\ pc' = "saved"
            /\ output_data' =
                    OutputData(constellation, satellites_data,
                               time_step_seconds, Len(time_points),
                               coverage_stats)
    /\ UNCHANGED <<constellation, satellite_pool, time_points,
                   visibility_index, satellites_data, time_step_seconds,
                   coverage_stats, verdict>>
    /\ UNCHANGED alignVars

Next == BuildTimeIndex \/ GenerateFullOrbitTimeseries \/ VerifyCoverage
            \/ WriteOutput

(***************************************************************************)
(* Initial states of a conversion run: the pool load_orbit_engine_data     *)
(* returns.  Satellite ids are unique in a pool, and the time_series of a  *)
(* satellite holds one point per timestamp, in time order; all timestamps  *)
(* come from one serializer ("...+00:00").                                 *)
(***************************************************************************)
Constellations == {"starlink", "oneweb"}

\* the metrics of a sparse point drawn: 45.678 / 123.454 / 550.126 and
\* connectable, or -1.235 / 0.0 / 9999.0 and not connectable
MetricsA ==
    [elevation_deg |-> 45678, azimuth_deg |-> 123454, distance_km |-> 550126,
     is_connectable |-> "True"]
MetricsB ==
    [elevation_deg |-> -1235, azimuth_deg |-> 0, distance_km |-> 9999000,
     is_connectable |-> "False"]
MetricsChoices == {MetricsA, MetricsB}

RECURSIVE Ascending(_)
\* the numbers of a set, in ascending order
Ascending(S) ==
    IF S = {} THEN << >>
    ELSE LET m == CHOOSE x \in S : \A y \in S : x <= y
         IN  <<m>> \o Ascending(S \ {m})

\* the time_series of satellite id: its cells in time order
SparseSeries(id, cells, metrics) ==
    LET ticks == Ascending({ c[2] : c \in { d \in cells : d[1] = id } })
    IN  [j \in 1..Len(ticks) |->
            [timestamp |-> Utc(ticks[j]),
             visibility_metrics |-> metrics[<<id, ticks[j]>>]]]

\* the pool of satellites ids[1], ids[2], ... with the samples of cells
MakePool(ids, cells, metrics) ==
    [k \in 1..Len(ids) |->
        [satellite_id |-> ids[k],
         name |-> <<"SAT", ids[k]>>,
         time_series |-> SparseSeries(ids[k], cells, metrics)]]

\* pools list their m satellites in ascending or in descending id order
PoolOrders(m) == { [k \in 1..m |-> k], [k \in 1..m |-> m + 1 - k] }

IdleAlign ==
    /\ timeseries_data = None
    /\ signal_data = << >>
    /\ matched_count = 0
    /\ total_points = 0
    /\ match_rate = None

FreshRun ==
    /\ pc = "loaded"
    /\ constellation \in Constellations
    /\ time_points = << >>
    /\ visibility_index = << >>
    /\ satellites_data = << >>
    /\ time_step_seconds = 0
    /\ coverage_stats = None
    /\ verdict = "none"
    /\ output_data = None

Init ==
    /\ FreshRun
    /\ IdleAlign
    /\ \E m \in 0..NumSats :
         \E ids \in PoolOrders(m) :
           \E cells \in { c \in SUBSET ((1..m) \X (0..MaxTick)) :
                                Cardinality(c) <= MaxSamples } :
             \E metrics \in [cells -> MetricsChoices] :
                satellite_pool = MakePool(ids, cells, metrics)

Spec == Init /\ [][Next]_vars

(***************************************************************************)
(* Initial states of a conversion run over a large pool, drawn by the      *)
(* number of entities observed at each timestamp: countA entities at each  *)
(* of the first `inside` timestamps, countB at each of the `outside`       *)
(* timestamps that follow; entity j is observed at a timestamp iff j is at *)
(* most the count there.                                                   *)
(***************************************************************************)
CountChoices == {OnewebLow + 1, TargetLow, TargetHigh, NumCovSats}

CoverageCells(inside, outside, countA, countB) ==
    { c \in (1..NumCovSats) \X (0..(inside + outside - 1)) :
        c[1] <= (IF c[2] < inside THEN countA ELSE countB) }

InitCoverage ==
    /\ FreshRun
    /\ IdleAlign
    /\ \/ satellite_pool = << >>
       \/ \E outside \in 0..MaxOutliers :
            \E inside \in 0..(MaxCovSteps - outside) :
              \E countA \in CountChoices : \E countB \in CountChoices :
                LET cells == CoverageCells(inside, outside, countA, countB)
                IN  satellite_pool =
                        MakePool([k \in 1..NumCovSats |-> k], cells,
                                 [c \in cells |-> MetricsA])

SpecCoverage == InitCoverage /\ [][Next]_vars

(***************************************************************************)
(* integrate_stage5_signal_data.py                                         *)
(***************************************************************************)
\* line 70: the tolerance of match_timestamps, in seconds
ToleranceSeconds == 30

\* dateutil's parser.parse raises on "invalid"
DateutilParses(ts) == ts.fmt # "bad"

Abs(x) == IF x >= 0 THEN x ELSE 0 - x

\* mutant of match_timestamps: the difference is not taken in absolute value
match_timestampsMut(stage4_ts, stage5_ts) ==
    IF ~DateutilParses(stage4_ts) \/ ~DateutilParses(stage5_ts) THEN FALSE
    ELSE IF stage4_ts.fmt # stage5_ts.fmt THEN FALSE
    ELSE SecondsOf(stage4_ts) - SecondsOf(stage5_ts) <= ToleranceSeconds

\* lines 51-72.  parser.parse raises on a string that is no date, and the
\* difference of an offset-aware and an offset-naive datetime raises a
\* TypeError; the bare except of line 71 turns both into False
match_timestamps(stage4_ts, stage5_ts) ==
    IF ~DateutilParses(stage4_ts) \/ ~DateutilParses(stage5_ts) THEN FALSE
    ELSE IF stage4_ts.fmt # stage5_ts.fmt THEN FALSE
    ELSE Abs(SecondsOf(stage4_ts) - SecondsOf(stage5_ts)) <= ToleranceSeconds

\* lines 113-117 and 141-145: the quality record with every field None
UnavailableQuality ==
    [rsrp_dbm |-> None, rsrq_db |-> None, rs_sinr_db |-> None]

\* the position of key ts in an ordered dict, 0 when it is no key
KeyPosition(dict, ts) ==
    IF \E i \in 1..Len(dict) : dict[i][1] = ts
    THEN CHOOSE i \in 1..Len(dict) : dict[i][1] = ts
    ELSE 0

RECURSIVE Stage5SatIndex(_, _)
\* lines 90-93: stage5_index[sat_id] after the points of series, as the
\* <<timestamp, point>> pairs of the dict in insertion order; assigning to a
\* key the dict has keeps the key's place and replaces its value
Stage5SatIndex(dict, series) ==
    IF series = << >> THEN dict
    ELSE LET point == Head(series)
             at == KeyPosition(dict, point.timestamp)
         IN  Stage5SatIndex(
                IF at = 0 THEN Append(dict, <<point.timestamp, point>>)
                ELSE [dict EXCEPT ![at] = <<point.timestamp, point>>],
                Tail(series))

\* lines 88-93: stage5_index
Stage5Index(signal) ==
    [sat_id \in DOMAIN signal |->
        Stage5SatIndex(<< >>, signal[sat_id].time_series)]

\* mutant of FirstMatch: the candidate nearest in time wins
FirstMatchMut(dict, stage4_ts) ==
    LET hits == { i \in 1..Len(dict) : match_timestamps(stage4_ts, dict[i][1]) }
    IN  IF hits = {} THEN 0
        ELSE CHOOSE i \in hits : \A j \in hits :
                LET di == Abs(SecondsOf(stage4_ts) - SecondsOf(dict[i][1]))
                    dj == Abs(SecondsOf(stage4_ts) - SecondsOf(dict[j][1]))
                IN  di < dj \/ (di = dj /\ i <= j)

\* mutant of FirstMatch: the scan ends at the first key that is no date
FirstMatchStopsMut(dict, stage4_ts) ==
    LET hits == { i \in 1..Len(dict) :
                    /\ match_timestamps(stage4_ts, dict[i][1])
                    /\ \A h \in 1..i : DateutilParses(dict[h][1]) }
    IN  IF hits = {} THEN 0
        ELSE CHOOSE i \in hits : \A j \in hits : i <= j

\* lines 132-137: the position of the first key of the dict, in its order,
\* that match_timestamps accepts; 0 when the loop ends without a break
FirstMatch(dict, stage4_ts) ==
    LET hits == { i \in 1..Len(dict) : match_timestamps(stage4_ts, dict[i][1]) }
    IN  IF hits = {} THEN 0
        ELSE CHOOSE i \in hits : \A j \in hits : i <= j

\* mutant of MatchVisible: the tolerance scan alone, without the look-up of
\* the exact key before it
MatchVisibleMut(dict, stage4_ts) ==
    LET first == FirstMatch(dict, stage4_ts)
    IN  IF first # 0
        THEN <<dict[first][2].signal_quality, TRUE>>
        ELSE <<UnavailableQuality, FALSE>>

\* lines 120-145: <<signal_quality, matched>> of a visible point
MatchVisible(dict, stage4_ts) ==
    LET exact == KeyPosition(dict, stage4_ts)
    IN  IF exact # 0
        THEN <<dict[exact][2].signal_quality, TRUE>>
        ELSE LET first == FirstMatch(dict, stage4_ts)
             IN  IF first # 0
                 THEN <<dict[first][2].signal_quality, TRUE>>
                 ELSE <<UnavailableQuality, FALSE>>

\* mutant of MatchPoint: the visible flag of the point is not looked at
MatchPointMut(dict, point) == MatchVisible(dict, point.time)

\* lines 108-145: <<signal_quality, matched>> of one point
MatchPoint(dict, point) ==
    IF ~point.is_visible
    THEN <<UnavailableQuality, FALSE>>
    ELSE MatchVisible(dict, point.time)

\* point['signal_quality'] = quality
WithQuality(point, quality) ==
    [key \in (DOMAIN point) \cup {"signal_quality"} |->
        IF key = "signal_quality" THEN quality ELSE point[key]]

\* mutant of IntegrateSatellite: an entity without an entry in the secondary
\* source gets the unavailable quality on every point
IntegrateSatelliteMut(index, satellite) ==
    [satellite EXCEPT !.position_timeseries =
        [i \in 1..Len(satellite.position_timeseries) |->
            WithQuality(satellite.position_timeseries[i],
                IF satellite.id \notin DOMAIN index
                THEN UnavailableQuality
                ELSE MatchPoint(index[satellite.id],
                                satellite.position_timeseries[i])[1])]]

\* lines 99-145: one satellite of the document after its turn of the loop
IntegrateSatellite(index, satellite) ==
    IF satellite.id \notin DOMAIN index
    THEN satellite
    ELSE [satellite EXCEPT !.position_timeseries =
            [i \in 1..Len(satellite.position_timeseries) |->
                WithQuality(satellite.position_timeseries[i],
                    MatchPoint(index[satellite.id],
                               satellite.position_timeseries[i])[1])]]

\* line 109: the points the loop went through for one satellite
SatelliteTotal(index, satellite) ==
    IF satellite.id \notin DOMAIN index THEN 0
    ELSE Len(satellite.position_timeseries)

\* lines 128, 135: the points of one satellite counted as matched
SatelliteMatched(index, satellite) ==
    IF satellite.id \notin DOMAIN index THEN 0
    ELSE Cardinality({ i \in 1..Len(satellite.position_timeseries) :
            MatchPoint(index[satellite.id],
                       satellite.position_timeseries[i])[2] })

\* line 147: the match rate in percent
MatchRate(matched, total) ==
    IF total > 0 THEN [num |-> matched * 100, den |-> total]
    ELSE [num |-> 0, den |-> 1]

\* lines 74-150, called at line 216: timeseries_data is updated in place
IntegrateSignalQuality ==
    /\ pc = "align_loaded"
    /\ LET index == Stage5Index(signal_data)
           sats == timeseries_data.satellites
           matched == SumSeq([k \in 1..Len(sats) |->
                                SatelliteMatched(index, sats[k])])
           total == SumSeq([k \in 1..Len(sats) |->
                                SatelliteTotal(index, sats[k])])
       IN  /\ timeseries_data' =
                [timeseries_data EXCEPT !.satellites =
                    [k \in 1..Len(sats) |->
                        IntegrateSatellite(index, sats[k])]]
           /\ matched_count' = matched
           /\ total_points' = total
           /\ match_rate' = MatchRate(matched, total)
    /\ pc' = "integrated"
    /\ UNCHANGED signal_data
    /\ UNCHANGED convertVars

\* lines 152-170, called at line 219: the metadata keys added before the
\* document is written
SaveEnhancedTimeseries ==
    /\ pc = "integrated"
    /\ timeseries_data' =
            [timeseries_data EXCEPT !.metadata =
                [key \in (DOMAIN timeseries_data.metadata)
                        \cup {"enhanced", "signal_quality_source",
                              "signal_calculation_standard"} |->
                    IF key = "enhanced" THEN "True"
                    ELSE IF key = "signal_quality_source"
                    THEN "orbit-engine Stage 5"
                    ELSE IF key = "signal_calculation_standard"
                    THEN "3GPP_TS_38.214"
                    ELSE timeseries_data.metadata[key]]]
    /\ pc' = "enhanced"
    /\ UNCHANGED <<signal_data, matched_count, total_points, match_rate>>
    /\ UNCHANGED convertVars

NextAlign == IntegrateSignalQuality \/ SaveEnhancedTimeseries

(***************************************************************************)
(* Initial states of an alignment run: the document load_stage4_timeseries *)
(* returns (m entities over one timeline, the visibility flag drawn per    *)
(* timeline position, no quality sub-record yet) and the secondary source  *)
(* load_stage5_signal_data                                                 *)
(* returns (any subset of the entities, each with a time_series in any     *)
(* order and with repeated timestamps allowed).                            *)
(***************************************************************************)
\* the timelines of the primary documents drawn
AlignTimelines ==
    { << >>, <<Utc(3)>>, <<BadTs>>, <<Utc(0), Utc(3)>> }

\* the timestamps of the secondary points drawn
SecondaryTimestamps ==
    { Utc(0), Utc(1), Utc(2), Utc(3), Naive(3), BadTs }

\* the dense record of a visible position (MetricsA rounded)
VisibleRecord(ts, offset) ==
    [time |-> ts, time_offset_seconds |-> offset,
     elevation_deg |-> 45680, azimuth_deg |-> 123450, range_km |-> 550130,
     is_visible |-> TRUE]

\* the primary document of m entities over timeline, visible where flags say
PrimaryDocument(const_name, m, timeline, flags) ==
    [metadata |->
        [generator |-> "convert_orbit_engine_to_timeseries.py",
         constellation |-> const_name],
     satellites |->
        [k \in 1..m |->
            [id |-> k,
             name |-> <<"SAT", k>>,
             position_timeseries |->
                [i \in 1..Len(timeline) |->
                    IF flags[i]
                    THEN VisibleRecord(timeline[i],
                                       (i - 1) * TimeStep(timeline))
                    ELSE SentinelRecord(timeline[i],
                                        (i - 1) * TimeStep(timeline))]]]]

Num(v) == <<v>>

\* the quality record of the j-th secondary point of entity sat_id; every
\* point of the secondary source carries its own values
QualityOf(sat_id, j) ==
    [rsrp_dbm |-> Num(0 - (80 + 10 * sat_id + j)),
     rsrq_db |-> Num(0 - (10 + j)),
     rs_sinr_db |-> Num(10 * sat_id + j)]

\* the flat list of <<entity, timestamp>> pairs, as the secondary source
SecondarySource(present, flat) ==
    [sat_id \in present |->
        LET own == SelectSeq(flat, LAMBDA e : e[1] = sat_id)
        IN  [constellation |-> "STARLINK",
             time_series |->
                [j \in 1..Len(own) |->
                    [timestamp |-> own[j][2],
                     signal_quality |-> QualityOf(sat_id, j)]]]]

IdleConvert ==
    /\ satellite_pool = << >>
    /\ time_points = << >>
    /\ visibility_index = << >>
    /\ satellites_data = << >>
    /\ time_step_seconds = 0
    /\ coverage_stats = None
    /\ verdict = "none"
    /\ output_data = None

InitAlign ==
    /\ pc = "align_loaded"
    /\ constellation = "starlink"
    /\ IdleConvert
    /\ matched_count = 0
    /\ total_points = 0
    /\ match_rate = None
    /\ \E m \in 0..NumSats : \E timeline \in AlignTimelines :
         \E flags \in [1..Len(timeline) -> BOOLEAN] :
            timeseries_data =
                PrimaryDocument(constellation, m, timeline, flags)
    /\ \E present \in SUBSET (1..NumSats) :
         \E n \in 0..MaxSecondaryPoints :
           \E flat \in [1..n -> present \X SecondaryTimestamps] :
              signal_data = SecondarySource(present, flat)

SpecAlign == InitAlign /\ [][NextAlign]_vars

(***************************************************************************)
(* Properties of a conversion run                                          *)
(***************************************************************************)
\* generate_full_orbit_timeseries has returned
Generated == pc \in {"generated", "verified", "saved"}

\* verify_coverage has returned a report
Reported == pc \in {"verified", "saved"} /\ coverage_stats # None

\* the sparse samples of pool entry k at timestamp ts
SamplesAt(k, ts) ==
    { j \in 1..Len(satellite_pool[k].time_series) :
        satellite_pool[k].time_series[j].timestamp = ts }

\* a dense value is the raw value rounded to two decimals
Rounded(dense, raw) ==
    /\ dense % 10 = 0
    /\ 2 * (dense - raw) <= 10
    /\ 2 * (raw - dense) <= 10

IsSentinel(rec) ==
    /\ rec.elevation_deg = -90000
    /\ rec.azimuth_deg = 0
    /\ rec.range_km = 9999000
    /\ rec.is_visible = FALSE

\* the number of entities visible at time index i, counted from the series
CountAt(i) ==
    Cardinality({ k \in 1..Len(satellites_data) :
                    satellites_data[k].position_timeseries[i].is_visible })

\* C1: every dense series has the length of the canonical timeline and its
\* i-th record carries the i-th canonical timestamp, for every entity
C1_DenseSeriesFollowsTimeline ==
    Generated =>
        \A k \in 1..Len(satellites_data) :
            LET pts == satellites_data[k].position_timeseries
            IN  /\ Len(pts) = Len(time_points)
                /\ satellites_data[k].config.time_points = Len(time_points)
                /\ \A i \in 1..Len(pts) : pts[i].time = time_points[i]

\* two entities, one of them with a gap, on a timeline of several timestamps
C1_Witness ==
    /\ Generated
    /\ Len(satellites_data) = 2
    /\ Len(time_points) >= 2
    /\ \E i \in 1..Len(time_points) :
            /\ satellites_data[1].position_timeseries[i].is_visible
            /\ ~satellites_data[2].position_timeseries[i].is_visible

\* C2: the timeline is the union of all timestamps of all entities, without
\* duplicate and strictly ascending; no sample at all gives an empty timeline
C2_TimelineIsSortedUnion ==
    pc # "loaded" =>
        /\ \A i \in 1..Len(time_points) :
                \E k \in 1..Len(satellite_pool) :
                    SamplesAt(k, time_points[i]) # {}
        /\ \A k \in 1..Len(satellite_pool) :
                \A j \in 1..Len(satellite_pool[k].time_series) :
                    \E i \in 1..Len(time_points) :
                        time_points[i]
                            = satellite_pool[k].time_series[j].timestamp
        /\ \A i \in 1..(Len(time_points) - 1) :
                SecondsOf(time_points[i]) < SecondsOf(time_points[i + 1])
        /\ \A i, j \in 1..Len(time_points) :
                i # j => time_points[i] # time_points[j]
        /\ (\A k \in 1..Len(satellite_pool) :
                satellite_pool[k].time_series = << >>) => time_points = << >>

\* two entities share a timestamp and the timeline has several timestamps
C2_Witness ==
    /\ pc = "indexed"
    /\ Len(satellite_pool) = 2
    /\ Len(time_points) >= 2
    /\ \E ts \in DOMAIN visibility_index :
            Cardinality(DOMAIN visibility_index[ts]) = 2

\* C3: an observed position carries the sample's values rounded to two
\* decimals with visible = true; a position not observed is the sentinel
C3_ObservedOrSentinel ==
    Generated =>
        \A k \in 1..Len(satellite_pool) : \A i \in 1..Len(time_points) :
            LET rec == satellites_data[k].position_timeseries[i]
                at == SamplesAt(k, time_points[i])
            IN  IF at # {}
                THEN \A j \in at :
                        LET m == satellite_pool[k].time_series[j]
                                    .visibility_metrics
                        IN  /\ rec.is_visible = TRUE
                            /\ ~IsSentinel(rec)
                            /\ Rounded(rec.elevation_deg, m.elevation_deg)
                            /\ Rounded(rec.azimuth_deg, m.azimuth_deg)
                            /\ Rounded(rec.range_km, m.distance_km)
                ELSE IsSentinel(rec)

\* an entity observed (not connectable) where another entity has a gap
C3_Witness ==
    /\ Generated
    /\ Len(satellite_pool) = 2
    /\ \E i \in 1..Len(time_points) :
            /\ SamplesAt(1, time_points[i]) # {}
            /\ \E j \in SamplesAt(1, time_points[i]) :
                    satellite_pool[1].time_series[j].visibility_metrics
                        = MetricsB
            /\ satellites_data[1].position_timeseries[i].elevation_deg
                    = -1240
            /\ SamplesAt(2, time_points[i]) = {}
            /\ IsSentinel(satellites_data[2].position_timeseries[i])

\* C10: one series per entity of the pool, in pool order; an entity without
\* samples is an all-sentinel series of full length with zero statistics
C10_NoEntityDropped ==
    Generated =>
        /\ Len(satellites_data) = Len(satellite_pool)
        /\ \A k \in 1..Len(satellite_pool) :
                /\ satellites_data[k].id = satellite_pool[k].satellite_id
                /\ satellite_pool[k].time_series = << >> =>
                        LET e == satellites_data[k]
                        IN  /\ Len(e.position_timeseries) = Len(time_points)
                            /\ \A i \in 1..Len(e.position_timeseries) :
                                    IsSentinel(e.position_timeseries[i])
                            /\ e.statistics.visible_points = 0
                            /\ e.statistics.visible_percentage = 0
                            /\ e.statistics.max_elevation = 0

\* the first entity of the pool has no sample, the timeline is not empty
C10_Witness ==
    /\ Generated
    /\ Len(satellite_pool) = 2
    /\ satellite_pool[1].time_series = << >>
    /\ Len(time_points) >= 2
    /\ Len(satellites_data) = 2
    /\ satellites_data[1].id = satellite_pool[1].satellite_id
    /\ satellites_data[1].id > satellites_data[2].id

\* C7: for a non-empty set of series of non-zero length, the average is the
\* sum of the per-timestep visible counts over the number of timesteps, and
\* min and max are the least and the greatest count
C7_CoverageStatistics ==
    (Reported /\ Len(satellites_data) > 0 /\ Len(time_points) > 0) =>
        LET T == Len(time_points)
            sum == SumSeq([i \in 1..T |-> CountAt(i)])
        IN  /\ coverage_stats.avg_visible.den > 0
            /\ coverage_stats.avg_visible.num * T
                    = sum * coverage_stats.avg_visible.den
            /\ \A i \in 1..T : coverage_stats.min_visible <= CountAt(i)
            /\ \E i \in 1..T : coverage_stats.min_visible = CountAt(i)
            /\ \A i \in 1..T : coverage_stats.max_visible >= CountAt(i)
            /\ \E i \in 1..T : coverage_stats.max_visible = CountAt(i)

\* X observed at t1 and t3, Y at t2: counts 1, 1, 1, average 1, min 1, max 1
C7_Witness ==
    /\ Reported
    /\ Len(satellites_data) = 2
    /\ Len(time_points) = 3
    /\ LET x == satellites_data[1].position_timeseries
           y == satellites_data[2].position_timeseries
       IN  /\ x[1].is_visible /\ ~x[2].is_visible /\ x[3].is_visible
           /\ ~y[1].is_visible /\ y[2].is_visible /\ ~y[3].is_visible
    /\ coverage_stats.avg_visible = [num |-> 3, den |-> 3]
    /\ coverage_stats.min_visible = 1
    /\ coverage_stats.max_visible = 1

\* C6: verify_coverage on an empty entity set or a zero-length timeline
\* returns a defined zero report that main consumes, and the run never fails
C6_DegenerateReport ==
    (pc \in {"verified", "saved", "failed"}
        /\ (Len(satellites_data) = 0 \/ Len(time_points) = 0)) =>
        /\ pc # "failed"
        /\ coverage_stats # None
        /\ coverage_stats.avg_visible.num = 0
        /\ coverage_stats.target_met_rate.num = 0

\* the number of time indices whose count is within [low, high]
InBand(low, high) ==
    Cardinality({ i \in 1..Len(time_points) :
                    low <= CountAt(i) /\ CountAt(i) <= high })

\* the report and the verdict measure the counts against the band
\* [low, high] and the pass threshold of PassRatePercent
MeasuredAgainst(low, high) ==
    LET T == Len(time_points)
        sum == SumSeq([i \in 1..T |-> CountAt(i)])
        rate == coverage_stats.target_met_rate
    IN  /\ rate.den > 0
        /\ rate.num * T = InBand(low, high) * rate.den
        /\ verdict = "met" <=>
                /\ low * T <= sum
                /\ sum <= high * T
                /\ 100 * InBand(low, high) >= PassRatePercent * T

\* C8: the achievement rate is the share of timesteps whose count c has
\* low <= c <= high, and the verdict is met exactly when the average is in
\* [low, high] and the rate is at or above the threshold
C8_AchievementRate ==
    (Reported /\ Len(satellites_data) > 0 /\ Len(time_points) > 0) =>
        /\ MeasuredAgainst(TargetLow, TargetHigh)
        /\ verdict \in {"met", "not_met"}

\* 20 timesteps, 19 of them inside the band [10, 15]: rate 19/20, met
C8_Witness ==
    /\ Reported
    /\ Len(time_points) = 20
    /\ InBand(TargetLow, TargetHigh) = 19
    /\ CountAt(1) = TargetLow
    /\ CountAt(20) = TargetHigh + 1
    /\ coverage_stats.target_met_rate = [num |-> 19, den |-> 20]
    /\ verdict = "met"

\* the band stated for the category being processed
ConfiguredLow == IF constellation = "oneweb" THEN OnewebLow ELSE StarlinkLow
ConfiguredHigh ==
    IF constellation = "oneweb" THEN OnewebHigh ELSE StarlinkHigh

\* C9: the band the achievement rate and the verdict are measured against
\* is the one of the category being processed ([3, 6] for oneweb, [10, 15]
\* for starlink)
C9_BandOfCategory ==
    (Reported /\ Len(satellites_data) > 0 /\ Len(time_points) > 0) =>
        MeasuredAgainst(ConfiguredLow, ConfiguredHigh)

(***************************************************************************)
(* Properties of an alignment run                                          *)
(***************************************************************************)
\* integrate_signal_quality has returned
Integrated == pc \in {"integrated", "enhanced"}

\* the points of the primary document, as <<entity position, time index>>
PrimaryPoints ==
    UNION { { <<k, i>> :
                i \in 1..Len(timeseries_data.satellites[k]
                                .position_timeseries) } :
            k \in 1..Len(timeseries_data.satellites) }

PointAt(p) == timeseries_data.satellites[p[1]].position_timeseries[p[2]]

EntityOf(p) == timeseries_data.satellites[p[1]].id

HasUnavailableQuality(point) ==
    /\ "signal_quality" \in DOMAIN point
    /\ point.signal_quality.rsrp_dbm = None
    /\ point.signal_quality.rsrq_db = None
    /\ point.signal_quality.rs_sinr_db = None

\* C4 as stated: after integrate_signal_quality every sample whose visible
\* flag is false carries the unavailable quality, also for an entity the
\* secondary source has no data for
C4_InvisibleAlwaysUnavailable ==
    Integrated =>
        \A p \in PrimaryPoints :
            ~PointAt(p).is_visible => HasUnavailableQuality(PointAt(p))

\* C4 as amended: every sample whose visible flag is false, of an entity
\* that has an entry in the secondary source, carries the unavailable
\* quality whatever that entry contains; the samples of an entity without
\* an entry are skipped and carry no quality sub-record
C4_InvisibleUnavailableWhenPresent ==
    Integrated =>
        \A p \in PrimaryPoints :
            ~PointAt(p).is_visible =>
                IF EntityOf(p) \in DOMAIN signal_data
                THEN HasUnavailableQuality(PointAt(p))
                ELSE "signal_quality" \notin DOMAIN PointAt(p)

\* an invisible sample whose timestamp is a timestamp of the entity's
\* secondary series, and an entity absent from the secondary source
C4_Witness ==
    /\ Integrated
    /\ \E p \in PrimaryPoints :
            /\ ~PointAt(p).is_visible
            /\ EntityOf(p) \in DOMAIN signal_data
            /\ \E j \in 1..Len(signal_data[EntityOf(p)].time_series) :
                    signal_data[EntityOf(p)].time_series[j].timestamp
                        = PointAt(p).time
            /\ HasUnavailableQuality(PointAt(p))
    /\ \E p \in PrimaryPoints :
            /\ ~PointAt(p).is_visible
            /\ EntityOf(p) \notin DOMAIN signal_data

\* two timestamps denote instants at most 30 s apart (no instant for a
\* string that is no date; no difference between a time with an offset
\* and a time without one)
WithinTolerance(a, b) ==
    /\ a.fmt # "bad" /\ b.fmt # "bad"
    /\ a.fmt = b.fmt
    /\ 15 * a.tick - 15 * b.tick <= 30
    /\ 15 * b.tick - 15 * a.tick <= 30

\* the quality stored under the timestamp of the j-th point of a secondary
\* series: that of the last point of the series with this timestamp
StoredQuality(series, j) ==
    LET same == { i \in 1..Len(series) :
                    series[i].timestamp = series[j].timestamp }
    IN  series[CHOOSE i \in same : \A h \in same : h <= i].signal_quality

\* C5: a visible sample without exact match gets the quality of the first
\* timestamp, in the order of the entity's secondary series, that is within
\* 30 s of it, closer later candidates notwithstanding; without any
\* candidate within 30 s it gets the unavailable quality
C5_FirstWithinToleranceWins ==
    Integrated =>
        \A p \in PrimaryPoints :
            (/\ PointAt(p).is_visible
             /\ EntityOf(p) \in DOMAIN signal_data
             /\ \A j \in 1..Len(signal_data[EntityOf(p)].time_series) :
                    signal_data[EntityOf(p)].time_series[j].timestamp
                        # PointAt(p).time) =>
                LET series == signal_data[EntityOf(p)].time_series
                    within == { j \in 1..Len(series) :
                                WithinTolerance(PointAt(p).time,
                                                series[j].timestamp) }
                IN  IF within = {}
                    THEN HasUnavailableQuality(PointAt(p))
                    ELSE /\ "signal_quality" \in DOMAIN PointAt(p)
                         /\ PointAt(p).signal_quality =
                                StoredQuality(series,
                                    CHOOSE j \in within :
                                        \A h \in within : j <= h)

\* primary T, candidates T+30s then T+15s in that order: the first is merged
C5_Witness ==
    /\ Integrated
    /\ \E p \in PrimaryPoints :
            /\ PointAt(p).is_visible
            /\ PointAt(p).time = Utc(0)
            /\ EntityOf(p) \in DOMAIN signal_data
            /\ LET series == signal_data[EntityOf(p)].time_series
               IN  /\ Len(series) = 2
                   /\ series[1].timestamp = Utc(2)
                   /\ series[2].timestamp = Utc(1)
                   /\ PointAt(p).signal_quality = series[1].signal_quality
                   /\ PointAt(p).signal_quality # series[2].signal_quality

(***************************************************************************)
(* Offsets, statistics and tags of a conversion run                        *)
(***************************************************************************)
\* the seconds between the first two canonical timestamps, 30 when the
\* timeline has fewer than two
StepOfTimeline ==
    IF Len(time_points) >= 2
    THEN 15 * time_points[2].tick - 15 * time_points[1].tick
    ELSE 30

\* C11: in every dense series the offset of the record at index i (from 0)
\* is i times the step, the step being the seconds between the first two
\* canonical timestamps or 30 for a timeline of fewer than two; the actual
\* time of the i-th timestamp plays no part
C11_OffsetIsIndexTimesStep ==
    Generated =>
        /\ time_step_seconds = StepOfTimeline
        /\ \A k \in 1..Len(satellites_data) :
            /\ satellites_data[k].config.time_step_seconds = StepOfTimeline
            /\ \A i \in 1..Len(satellites_data[k].position_timeseries) :
                  satellites_data[k].position_timeseries[i]
                        .time_offset_seconds = (i - 1) * StepOfTimeline

\* an irregular timeline (15 s, then 30 s): the third record is at offset
\* 30 although its timestamp is 45 s after the first
C11_Witness ==
    /\ Generated
    /\ Len(time_points) = 3
    /\ time_points[2].tick - time_points[1].tick = 1
    /\ time_points[3].tick - time_points[2].tick = 2
    /\ Len(satellites_data) >= 1
    /\ satellites_data[1].position_timeseries[3].time_offset_seconds = 30

(***************************************************************************)
(* Skipped entities, unparsable timestamps, exact matches, the match rate  *)
(***************************************************************************)
\* the time indexes of the k-th entity of the primary document
PointsOf(k) ==
    1..Len(timeseries_data.satellites[k].position_timeseries)

\* C12: after the alignment an entity of the primary series with
\* no entry in the secondary source keeps its samples without any quality
\* sub-record, and every sample of every other entity, before or after it
\* in the list, has received one
C12_AbsentEntitySkipped ==
    Integrated =>
        \A k \in 1..Len(timeseries_data.satellites) :
            LET satellite == timeseries_data.satellites[k]
            IN  IF satellite.id \in DOMAIN signal_data
                THEN \A i \in PointsOf(k) :
                        "signal_quality"
                            \in DOMAIN satellite.position_timeseries[i]
                ELSE \A i \in PointsOf(k) :
                        "signal_quality"
                            \notin DOMAIN satellite.position_timeseries[i]

\* the first entity of the list is absent from the secondary source and
\* skipped, the one after it is present and has been merged from that source
C12_Witness ==
    /\ Integrated
    /\ Len(timeseries_data.satellites) = 2
    /\ timeseries_data.satellites[1].id \notin DOMAIN signal_data
    /\ timeseries_data.satellites[2].id \in DOMAIN signal_data
    /\ PointsOf(1) # {}
    /\ \A i \in PointsOf(1) :
          "signal_quality"
              \notin DOMAIN timeseries_data.satellites[1].position_timeseries[i]
    /\ \E i \in PointsOf(2) :
          /\ "signal_quality"
              \in DOMAIN timeseries_data.satellites[2].position_timeseries[i]
          /\ ~HasUnavailableQuality(
                  timeseries_data.satellites[2].position_timeseries[i])

\* a timestamp string that is no date
Unparsable(ts) == ts.fmt = "bad"

\* a visible point of a present entity whose timestamp is no key of the
\* entity's secondary index: the tolerance scan runs for it
Scanned(p) ==
    /\ PointAt(p).is_visible
    /\ EntityOf(p) \in DOMAIN signal_data
    /\ \A j \in 1..Len(signal_data[EntityOf(p)].time_series) :
            signal_data[EntityOf(p)].time_series[j].timestamp
                # PointAt(p).time

\* C13: in a tolerance scan with an unparsable timestamp, each comparison
\* with it is a non-match and the scan goes on: the sample gets what the
\* first parsable candidate within 30 s holds, wherever the unparsable
\* ones stand, and the unavailable quality when every comparison fails
C13_UnparsableIsNonMatch ==
    Integrated =>
        \A p \in PrimaryPoints :
            LET series == signal_data[EntityOf(p)].time_series
                usable == { j \in 1..Len(series) :
                            /\ ~Unparsable(PointAt(p).time)
                            /\ ~Unparsable(series[j].timestamp)
                            /\ WithinTolerance(PointAt(p).time,
                                               series[j].timestamp) }
            IN  (/\ Scanned(p)
                 /\ \/ Unparsable(PointAt(p).time)
                    \/ \E j \in 1..Len(series) :
                            Unparsable(series[j].timestamp)) =>
                    IF usable = {}
                    THEN HasUnavailableQuality(PointAt(p))
                    ELSE /\ "signal_quality" \in DOMAIN PointAt(p)
                         /\ PointAt(p).signal_quality =
                                StoredQuality(series,
                                    CHOOSE j \in usable :
                                        \A h \in usable : j <= h)

\* an unparsable candidate first, then one 15 s away that is merged
C13_Witness ==
    /\ Integrated
    /\ \E p \in PrimaryPoints :
            /\ Scanned(p)
            /\ PointAt(p).time = Utc(3)
            /\ LET series == signal_data[EntityOf(p)].time_series
               IN  /\ Len(series) = 2
                   /\ Unparsable(series[1].timestamp)
                   /\ series[2].timestamp = Utc(2)
                   /\ PointAt(p).signal_quality = series[2].signal_quality

\* C14 as stated: integrate_signal_quality leaves the primary document it
\* receives as it was; what main holds as timeseries_data is the same
\* samples with the same fields after the call as before it
C14_InputUnchanged ==
    [][pc = "align_loaded" => timeseries_data' = timeseries_data]_vars

\* C15 as stated: every entity series generated in the run for a category
\* carries that category as its constellation tag
C15_TagIsCategory ==
    Generated =>
        \A k \in 1..Len(satellites_data) :
            satellites_data[k].constellation = constellation

\* the points of the secondary series of p's entity whose timestamp string
\* is the timestamp string of p
ExactKeys(p) ==
    { j \in 1..Len(signal_data[EntityOf(p)].time_series) :
        signal_data[EntityOf(p)].time_series[j].timestamp = PointAt(p).time }

\* C16: a visible sample whose timestamp string is a key of the entity's
\* secondary index gets the quality stored under that key, whatever other
\* timestamps within the tolerance stand earlier in the secondary series
C16_ExactKeyWins ==
    Integrated =>
        \A p \in PrimaryPoints :
            (/\ PointAt(p).is_visible
             /\ EntityOf(p) \in DOMAIN signal_data
             /\ ExactKeys(p) # {}) =>
                /\ "signal_quality" \in DOMAIN PointAt(p)
                /\ PointAt(p).signal_quality =
                        StoredQuality(signal_data[EntityOf(p)].time_series,
                                      CHOOSE j \in ExactKeys(p) : TRUE)

\* primary T, secondary T-15s then T in that order: the second is merged
C16_Witness ==
    /\ Integrated
    /\ \E p \in PrimaryPoints :
            /\ PointAt(p).is_visible
            /\ PointAt(p).time = Utc(3)
            /\ EntityOf(p) \in DOMAIN signal_data
            /\ LET series == signal_data[EntityOf(p)].time_series
               IN  /\ Len(series) = 2
                   /\ series[1].timestamp = Utc(2)
                   /\ series[2].timestamp = Utc(3)
                   /\ PointAt(p).signal_quality = series[2].signal_quality
                   /\ PointAt(p).signal_quality # series[1].signal_quality

\* the time indexes at which the k-th generated entity is visible
VisibleEntries(k) ==
    { i \in 1..Len(satellites_data[k].position_timeseries) :
        satellites_data[k].position_timeseries[i].is_visible }

\* C17 as stated: max_elevation of an entity is the greatest elevation of
\* its visible entries, whatever their sign, and 0.0 when it has none
C17_MaxElevationOfVisible ==
    Generated =>
        \A k \in 1..Len(satellites_data) :
            LET pts == satellites_data[k].position_timeseries
                stat == satellites_data[k].statistics.max_elevation
            IN  IF VisibleEntries(k) = {}
                THEN stat = 0
                ELSE /\ \E i \in VisibleEntries(k) :
                            stat = pts[i].elevation_deg
                     /\ \A i \in VisibleEntries(k) :
                            stat >= pts[i].elevation_deg

\* the samples whose quality sub-record comes from the secondary source:
\* visible, of an entity with an entry, with an exact key or a candidate
\* within the tolerance
TakenFromSecondary ==
    { p \in PrimaryPoints :
        /\ PointAt(p).is_visible
        /\ EntityOf(p) \in DOMAIN signal_data
        /\ \E j \in 1..Len(signal_data[EntityOf(p)].time_series) :
              LET ts == signal_data[EntityOf(p)].time_series[j].timestamp
              IN  ts = PointAt(p).time \/ WithinTolerance(PointAt(p).time, ts) }

\* the rate is matched / total in percent, and 0 when total is 0
RateIs(matched, total) ==
    IF total = 0 THEN match_rate.num = 0
    ELSE match_rate.num * total = matched * 100 * match_rate.den

\* C18 as stated: total_points counts the samples of all entities of the
\* primary series, matched_count those taken from the secondary source,
\* 0 <= matched_count <= total_points, and the rate is their quotient
C18_RateOverAllPoints ==
    Integrated =>
        /\ total_points = Cardinality(PrimaryPoints)
        /\ matched_count = Cardinality(TakenFromSecondary)
        /\ 0 <= matched_count /\ matched_count <= total_points
        /\ RateIs(matched_count, total_points)

====
